---------------------------- MODULE Spec2Model ----------------------------
(***************************************************************************)
(* Model of the multi-language code runner.  Two programs live in the      *)
(* repository: the flag-driven runner with the table diff (prog = "table")  *)
(* and the older runner that takes the language as its first argument and   *)
(* prints a unified diff (prog = "unified").                                *)
(*                                                                          *)
(* A text is a sequence of one-character strings.  A run is a sequence of   *)
(* stages; the environment (file system, compiler, candidate program,      *)
(* output sink) is resolved by the \E in each stage.                        *)
(***************************************************************************)
EXTENDS Integers, Sequences, FiniteSets, TLC

VARIABLES
    prog,       \* which program runs: "table" or "unified"
    pc,         \* position of the run
    lang,       \* detected / given language ("" before detection or when unknown)
    cleanup,    \* value of *cleanupFlag
    buildDir,   \* whether the directory "build" exists
    artifact,   \* whether a compiled binary / class file exists
    compiled,   \* "no" | "ok" | "failed"
    executed,   \* "no" | "ok" | "failed"
    expected,   \* contents read from expectedOutputFile
    actual,     \* contents read from outputFile
    verdict,    \* "none" | "Match" | "Diff"
    out,        \* the writes diffLines attempted on the sink, in order
    ret,        \* what compileAndRun returned: "none" | "nil" | "error"
    errKind,    \* which error ended the run, "none" if none
    exitCode,   \* process exit status, -1 while running
    stages,     \* the stages started so far, in order
    tcall       \* a call of truncate made by the harness specification

vars == <<prog, pc, lang, cleanup, buildDir, artifact, compiled, executed,
          expected, actual, verdict, out, ret, errKind, exitCode, stages, tcall>>

(***************************************************************************)
(* Bounds of the model.                                                    *)
(***************************************************************************)
MaxLines == 2

MaxFailFrom == 1

MaxTruncWidth == 5

MaxTruncLen == 6

(***************************************************************************)
(* Texts.                                                                  *)
(***************************************************************************)
NL == "\n"

Rep(c, n) == [i \in 1..n |-> c]

\* a variant that takes the shorter side
Max2TakesShorter(a, b) == IF a < b THEN a ELSE b

\* max := len(expLines); if len(actLines) > max { max = len(actLines) }
Max2(a, b) == IF b > a THEN b ELSE a

\* unicode.IsSpace restricted to the characters of the model
IsSpace(c) == c \in {" ", NL, "\t", "\r"}

RECURSIVE TrimLeftSpace(_)
TrimLeftSpace(s) ==
    IF Len(s) > 0 /\ IsSpace(Head(s)) THEN TrimLeftSpace(Tail(s)) ELSE s

RECURSIVE TrimRightSpace(_)
TrimRightSpace(s) ==
    IF Len(s) > 0 /\ IsSpace(s[Len(s)])
    THEN TrimRightSpace(SubSeq(s, 1, Len(s) - 1))
    ELSE s

\* a variant that trims the end only
TrimSpaceAtEndOnly(s) == TrimRightSpace(s)

\* bytes.TrimSpace as called at the comparison
TrimSpace(s) == TrimRightSpace(TrimLeftSpace(s))

\* strings.Index(s, "\n") + 1, 0 when there is none
IndexNL(s) ==
    IF \E i \in 1..Len(s) : s[i] = NL
    THEN CHOOSE i \in 1..Len(s) : s[i] = NL /\ \A j \in 1..(i - 1) : s[j] # NL
    ELSE 0

\* strings.Split(s, "\n")
RECURSIVE Split(_)
Split(s) ==
    LET i == IndexNL(s)
    IN  IF i = 0 THEN <<s>>
        ELSE <<SubSeq(s, 1, i - 1)>> \o Split(SubSeq(s, i + 1, Len(s)))

RECURSIVE Join(_)
Join(ls) ==
    IF Len(ls) = 0 THEN <<>>
    ELSE IF Len(ls) = 1 THEN ls[1]
    ELSE ls[1] \o <<NL>> \o Join(Tail(ls))

LineSet == {<<>>, <<"x">>, <<" ">>}

LineSeqs(n) == UNION {[1..k -> LineSet] : k \in 1..n}

ShortTexts == {Join(ls) : ls \in LineSeqs(MaxLines)}

\* a variant with a column too narrow for the ellipsis
widthTooNarrow == 2 + 2

\* the column width of the table
width == 40

\* a line longer than a cell of the table
LongLine == Rep("x", width)

ExampleTexts ==
    { Join(<<(<<"x">>), (<<"y">>), (<<"x">>)>>),
      Join(<<(<<"x">>), (<<"x">>), (<<"x">>)>>),
      Join(<<(<<"y">>), (<<"x">>), (<<"x">>)>>),
      Join(<<(<<"x">>), (<<"y">>), (<<"x">>), (<<"y">>)>>),
      Join(<<(<<"x">>), (<<>>), (<<"y">>)>>),
      <<"x", " ", "y">>,
      <<"x", "y">>,
      Join(<<(<<"x">>), (<<"y">>)>>),
      Join(<<(<<"y">>), (<<"x">>)>>),
      Join(<<(<<"x">>), (<<"y">>), (<<>>)>>),
      LongLine,
      Join(<<LongLine, (<<"y">>)>>) }

Texts == ShortTexts \cup ExampleTexts

(***************************************************************************)
(* truncate, printColoredRow, diffLines (table renderer).                  *)
(***************************************************************************)
\* the value standing for a run-time panic (slice bounds out of range)
Panic == <<"!panic">>

\* a variant that keeps one character too many
truncateKeepsOneMore(s, max) ==
    IF Len(s) > max
    THEN IF max - 2 < 0 THEN Panic
         ELSE SubSeq(s, 1, max - 2) \o <<".", ".", ".">>
    ELSE s

truncate(s, max) ==
    IF Len(s) > max
    THEN IF max - 3 < 0 THEN Panic
         ELSE SubSeq(s, 1, max - 3) \o <<".", ".", ".">>
    ELSE s

\* fmt's %-*s: pad on the right with spaces up to w, never cut
PadRight(s, w) == IF Len(s) >= w THEN s ELSE s \o Rep(" ", w - Len(s))

Cell(t, w) == IF t = Panic THEN Panic ELSE PadRight(t, w)

Write(kind, idx, e, a, differing, w) ==
    [kind |-> kind, idx |-> idx, exp |-> e, act |-> a,
     differing |-> differing, w |-> w, ok |-> TRUE]

printColoredRow(idx, e, a, w) ==
    LET truncE == truncate(e, w)
        truncA == truncate(a, w)
    IN  Write("row", idx, Cell(truncE, w), Cell(truncA, w), TRUE, w)

LineAt(ls, i) == IF i <= Len(ls) THEN ls[i] ELSE <<>>

\* a variant that ignores the whitespace around a line
LineDiffersTrimmed(e, a) == TrimSpace(e) # TrimSpace(a)

\* the test e != a that classifies a row
LineDiffers(e, a) == e # a

\* one iteration of the loop of diffLines, i counted from 1
TableRow(expLines, actLines, i) ==
    LET e == LineAt(expLines, i)
        a == LineAt(actLines, i)
    IN  IF LineDiffers(e, a)
        THEN printColoredRow(i - 1, e, a, width - 2)
        ELSE Write("row", i - 1, Cell(truncate(e, width - 2), width - 2),
                   Cell(truncate(a, width - 2), width - 2), FALSE, width - 2)

Frame(name) == Write(name, -1, <<>>, <<>>, FALSE, 0)

\* a variant that stops writing at the first failed write
WithSinkStopping(header, body, failFrom) ==
    header \o [n \in 1..(IF failFrom = 0 \/ failFrom > Len(body)
                          THEN Len(body) ELSE failFrom) |->
                 [body[n] EXCEPT !.ok = (failFrom = 0 \/ n < failFrom)]]

\* the sink fails from the failFrom-th write after the header on (0: never)
WithSink(header, body, failFrom) ==
    header \o [n \in 1..Len(body) |->
                 [body[n] EXCEPT !.ok = (failFrom = 0 \/ n < failFrom)]]

diffLines(e, a, failFrom) ==
    LET expLines == Split(e)
        actLines == Split(a)
        max == Max2(Len(expLines), Len(actLines))
    IN  WithSink(<<Frame("top"), Frame("header"), Frame("sep")>>,
                 [i \in 1..max |-> TableRow(expLines, actLines, i)]
                     \o <<Frame("bottom")>>,
                 failFrom)

(***************************************************************************)
(* diffLines of the unified renderer: only differing rows are written.     *)
(***************************************************************************)
RECURSIVE UnifiedRows(_, _, _, _)
UnifiedRows(expLines, actLines, i, max) ==
    IF i > max THEN <<>>
    ELSE LET e == LineAt(expLines, i)
             a == LineAt(actLines, i)
             rest == UnifiedRows(expLines, actLines, i + 1, max)
         IN  IF LineDiffers(e, a)
             THEN <<Write("minus", i - 1, e, <<>>, TRUE, 0),
                    Write("plus", i - 1, <<>>, a, TRUE, 0)>> \o rest
             ELSE rest

diffLinesUnified(e, a, failFrom) ==
    LET expLines == Split(e)
        actLines == Split(a)
    IN  WithSink(<<Frame("minusHeader"), Frame("plusHeader")>>,
                 UnifiedRows(expLines, actLines, 1,
                             Max2(Len(expLines), Len(actLines))),
                 failFrom)

\* a variant that compares the blobs as read
DiffersUntrimmed(e, a) == a # e

\* !bytes.Equal(bytes.TrimSpace(actual), bytes.TrimSpace(expected))
Differs(e, a) == TrimSpace(a) # TrimSpace(e)

Panicked(o) == \E n \in 1..Len(o) : o[n].exp = Panic \/ o[n].act = Panic

\* the writes made before the panicking call of truncate
BeforePanic(o) ==
    LET n == CHOOSE k \in 1..Len(o) :
                 /\ o[k].exp = Panic \/ o[k].act = Panic
                 /\ \A j \in 1..(k - 1) : o[j].exp # Panic /\ o[j].act # Panic
    IN  SubSeq(o, 1, n - 1)

(***************************************************************************)
(* Languages.                                                              *)
(***************************************************************************)
Langs == {"go", "cpp", "rust", "java", "python"}

\* "" stands for the error result
detectLang(ext) ==
    CASE ext = ".go" -> "go"
      [] ext \in {".cpp", ".cc", ".cxx"} -> "cpp"
      [] ext = ".rs" -> "rust"
      [] ext = ".java" -> "java"
      [] ext = ".py" -> "python"
      [] OTHER -> ""

\* the extensions and language arguments the runs are tried with
Exts == {".go", ".py", ".txt"}

LangArgs == {"go", "python", "ruby"}

StageOrder == <<"detect", "stat", "compile", "execute", "compare">>

NoCall == [s |-> <<>>, max |-> 0, res |-> <<>>, cell |-> <<>>, done |-> FALSE]

(***************************************************************************)
(* Initial state: the process has started, nothing has run.  The working  *)
(* directory holds no build directory and no compiled artifact yet.        *)
(***************************************************************************)
Init ==
    /\ prog \in {"table", "unified"}
    /\ pc = "start"
    /\ lang = ""
    /\ cleanup = FALSE
    /\ buildDir = FALSE
    /\ artifact = FALSE
    /\ compiled = "no"
    /\ executed = "no"
    /\ expected = <<>>
    /\ actual = <<>>
    /\ verdict = "none"
    /\ out = <<>>
    /\ ret = "none"
    /\ errKind = "none"
    /\ exitCode = -1
    /\ stages = <<>>
    /\ tcall = NoCall

\* os.Exit(1) in main after printing the message
Exit1(kind) ==
    /\ errKind' = kind
    /\ exitCode' = 1
    /\ pc' = "exited"

\* return fmt.Errorf(...) in compileAndRun
Fail(kind) ==
    /\ errKind' = kind
    /\ ret' = "error"
    /\ pc' = "returned"

(***************************************************************************)
(* The flag-driven runner (table renderer).                                *)
(***************************************************************************)
T_ParseArgs ==
    /\ prog = "table" /\ pc = "start"
    /\ \E nargs \in {3, 4}, cl \in BOOLEAN :
          /\ cleanup' = cl
          /\ IF nargs # 4
             THEN Exit1("usage")
             ELSE pc' = "detect" /\ UNCHANGED <<errKind, exitCode>>
    /\ UNCHANGED <<prog, lang, buildDir, artifact, compiled, executed, expected,
                   actual, verdict, out, ret, stages, tcall>>

T_DetectLang ==
    /\ prog = "table" /\ pc = "detect"
    /\ stages' = Append(stages, "detect")
    /\ \E ext \in Exts :
          /\ lang' = detectLang(ext)
          /\ IF detectLang(ext) = ""
             THEN Exit1("unsupported")
             ELSE pc' = "stat" /\ UNCHANGED <<errKind, exitCode>>
    /\ UNCHANGED <<prog, cleanup, buildDir, artifact, compiled, executed,
                   expected, actual, verdict, out, ret, tcall>>

T_CheckFiles ==
    /\ prog = "table" /\ pc = "stat"
    /\ stages' = Append(stages, "stat")
    /\ \E allExist \in BOOLEAN :
          IF ~allExist
          THEN Exit1("missing")
          ELSE pc' = "mkdir" /\ UNCHANGED <<errKind, exitCode>>
    /\ UNCHANGED <<prog, lang, cleanup, buildDir, artifact, compiled, executed,
                   expected, actual, verdict, out, ret, tcall>>

\* os.MkdirAll and the switch that builds the compile command
T_MkBuildDir ==
    /\ prog = "table" /\ pc = "mkdir"
    /\ \E ok \in BOOLEAN :
          IF ~ok
          THEN Fail("mkdir") /\ UNCHANGED buildDir
          ELSE /\ buildDir' = TRUE
               /\ IF lang \notin Langs
                  THEN Fail("unsupported")
                  ELSE /\ pc' = IF lang = "python" THEN "open" ELSE "compile"
                       /\ UNCHANGED <<errKind, ret>>
    /\ UNCHANGED <<prog, lang, cleanup, artifact, compiled, executed, expected,
                   actual, verdict, out, exitCode, stages, tcall>>

\* a variant that goes on after a failed compilation
T_CompileErrorIgnored ==
    /\ prog = "table" /\ pc = "compile"
    /\ stages' = Append(stages, "compile")
    /\ \E ok \in BOOLEAN :
          /\ compiled' = IF ok THEN "ok" ELSE "failed"
          /\ artifact' = ok
          /\ pc' = "open"
    /\ UNCHANGED <<prog, lang, cleanup, buildDir, executed, expected, actual,
                   verdict, out, exitCode, tcall, errKind, ret>>

T_Compile ==
    /\ prog = "table" /\ pc = "compile"
    /\ stages' = Append(stages, "compile")
    /\ \E ok \in BOOLEAN :
          IF ok
          THEN /\ compiled' = "ok"
               /\ artifact' = TRUE
               /\ pc' = "open"
               /\ UNCHANGED <<errKind, ret>>
          ELSE /\ compiled' = "failed"
               /\ Fail("compile")
               /\ UNCHANGED artifact
    /\ UNCHANGED <<prog, lang, cleanup, buildDir, executed, expected, actual,
                   verdict, out, exitCode, tcall>>

T_OpenFiles ==
    /\ prog = "table" /\ pc = "open"
    /\ \E r \in {"ok", "openin", "createout"} :
          IF r = "ok"
          THEN pc' = "exec" /\ UNCHANGED <<errKind, ret>>
          ELSE Fail(r)
    /\ UNCHANGED <<prog, lang, cleanup, buildDir, artifact, compiled, executed,
                   expected, actual, verdict, out, exitCode, stages, tcall>>

T_Execute ==
    /\ prog = "table" /\ pc = "exec"
    /\ stages' = Append(stages, "execute")
    /\ \E ok \in BOOLEAN :
          IF ok
          THEN executed' = "ok" /\ pc' = "read" /\ UNCHANGED <<errKind, ret>>
          ELSE executed' = "failed" /\ Fail("exec")
    /\ UNCHANGED <<prog, lang, cleanup, buildDir, artifact, compiled, expected,
                   actual, verdict, out, exitCode, tcall>>

T_ReadOutputs ==
    /\ prog = "table" /\ pc = "read"
    /\ stages' = Append(stages, "compare")
    /\ \E r \in {"ok", "readactual", "readexpected"} :
          IF r = "ok"
          THEN /\ \E a \in Texts, e \in Texts : actual' = a /\ expected' = e
               /\ pc' = "compare"
               /\ UNCHANGED <<errKind, ret>>
          ELSE Fail(r) /\ UNCHANGED <<actual, expected>>
    /\ UNCHANGED <<prog, lang, cleanup, buildDir, artifact, compiled, executed,
                   verdict, out, exitCode, tcall>>

T_Compare ==
    /\ prog = "table" /\ pc = "compare"
    /\ IF Differs(expected, actual)
       THEN /\ verdict' = "Diff"
            /\ \E failFrom \in 0..MaxFailFrom :
                  LET o == diffLines(expected, actual, failFrom)
                  IN  IF Panicked(o)
                      THEN /\ out' = BeforePanic(o)
                           /\ errKind' = "panic"
                           /\ exitCode' = 2
                           /\ pc' = "exited"
                      ELSE /\ out' = o
                           /\ pc' = "cleanup"
                           /\ UNCHANGED <<errKind, exitCode>>
       ELSE /\ verdict' = "Match"
            /\ pc' = "cleanup"
            /\ UNCHANGED <<out, errKind, exitCode>>
    /\ UNCHANGED <<prog, lang, cleanup, buildDir, artifact, compiled, executed,
                   expected, actual, ret, stages, tcall>>

\* if cleanup { os.RemoveAll(buildDir) ... } return nil
T_Cleanup ==
    /\ prog = "table" /\ pc = "cleanup"
    /\ IF cleanup
       THEN \E removed \in BOOLEAN :
               IF removed
               THEN buildDir' = FALSE /\ artifact' = FALSE
               ELSE UNCHANGED <<buildDir, artifact>>
       ELSE UNCHANGED <<buildDir, artifact>>
    /\ ret' = "nil"
    /\ pc' = "returned"
    /\ UNCHANGED <<prog, lang, cleanup, compiled, executed, expected, actual,
                   verdict, out, errKind, exitCode, stages, tcall>>

\* a variant in which a Diff verdict fails the process
T_ReturnDiffFails ==
    /\ prog = "table" /\ pc = "returned"
    /\ exitCode' = IF ret = "error" \/ verdict = "Diff" THEN 1 ELSE 0
    /\ pc' = "exited"
    /\ UNCHANGED <<prog, lang, cleanup, buildDir, artifact, compiled, executed,
                   expected, actual, verdict, out, ret, errKind, stages, tcall>>

\* main after compileAndRun returned
T_Return ==
    /\ prog = "table" /\ pc = "returned"
    /\ exitCode' = IF ret = "error" THEN 1 ELSE 0
    /\ pc' = "exited"
    /\ UNCHANGED <<prog, lang, cleanup, buildDir, artifact, compiled, executed,
                   expected, actual, verdict, out, ret, errKind, stages, tcall>>

(***************************************************************************)
(* The runner that takes the language as an argument (unified renderer).   *)
(***************************************************************************)
\* the argument count check and lang := strings.ToLower(os.Args[1])
U_ParseArgs ==
    /\ prog = "unified" /\ pc = "start"
    /\ \E nargs \in {5, 6}, l \in LangArgs :
          IF nargs # 6
          THEN Exit1("usage") /\ UNCHANGED lang
          ELSE /\ lang' = l
               /\ pc' = "stat"
               /\ UNCHANGED <<errKind, exitCode>>
    /\ UNCHANGED <<prog, cleanup, stages, buildDir, artifact, compiled, executed,
                   expected, actual, verdict, out, ret, tcall>>

U_CheckFiles ==
    /\ prog = "unified" /\ pc = "stat"
    /\ stages' = Append(stages, "stat")
    /\ \E allExist \in BOOLEAN :
          IF ~allExist
          THEN Exit1("missing")
          ELSE pc' = "switch" /\ UNCHANGED <<errKind, exitCode>>
    /\ UNCHANGED <<prog, lang, cleanup, buildDir, artifact, compiled, executed,
                   expected, actual, verdict, out, ret, tcall>>

\* the switch that builds the compile command
U_Switch ==
    /\ prog = "unified" /\ pc = "switch"
    /\ IF lang \notin Langs
       THEN Fail("unsupported")
       ELSE /\ pc' = IF lang = "python" THEN "open" ELSE "compile"
            /\ UNCHANGED <<errKind, ret>>
    /\ UNCHANGED <<prog, lang, cleanup, buildDir, artifact, compiled, executed,
                   expected, actual, verdict, out, exitCode, stages, tcall>>

U_Compile ==
    /\ prog = "unified" /\ pc = "compile"
    /\ stages' = Append(stages, "compile")
    /\ \E ok \in BOOLEAN :
          IF ok
          THEN /\ compiled' = "ok"
               /\ artifact' = TRUE
               /\ pc' = "open"
               /\ UNCHANGED <<errKind, ret>>
          ELSE /\ compiled' = "failed"
               /\ Fail("compile")
               /\ UNCHANGED artifact
    /\ UNCHANGED <<prog, lang, cleanup, buildDir, executed, expected, actual,
                   verdict, out, exitCode, tcall>>

U_OpenFiles ==
    /\ prog = "unified" /\ pc = "open"
    /\ \E r \in {"ok", "openin", "createout"} :
          IF r = "ok"
          THEN pc' = "exec" /\ UNCHANGED <<errKind, ret>>
          ELSE Fail(r)
    /\ UNCHANGED <<prog, lang, cleanup, buildDir, artifact, compiled, executed,
                   expected, actual, verdict, out, exitCode, stages, tcall>>

U_Execute ==
    /\ prog = "unified" /\ pc = "exec"
    /\ stages' = Append(stages, "execute")
    /\ \E ok \in BOOLEAN :
          IF ok
          THEN executed' = "ok" /\ pc' = "read" /\ UNCHANGED <<errKind, ret>>
          ELSE executed' = "failed" /\ Fail("exec")
    /\ UNCHANGED <<prog, lang, cleanup, buildDir, artifact, compiled, expected,
                   actual, verdict, out, exitCode, tcall>>

U_ReadOutputs ==
    /\ prog = "unified" /\ pc = "read"
    /\ stages' = Append(stages, "compare")
    /\ \E r \in {"ok", "readactual", "readexpected"} :
          IF r = "ok"
          THEN /\ \E a \in Texts, e \in Texts : actual' = a /\ expected' = e
               /\ pc' = "compare"
               /\ UNCHANGED <<errKind, ret>>
          ELSE Fail(r) /\ UNCHANGED <<actual, expected>>
    /\ UNCHANGED <<prog, lang, cleanup, buildDir, artifact, compiled, executed,
                   verdict, out, exitCode, tcall>>

U_Compare ==
    /\ prog = "unified" /\ pc = "compare"
    /\ IF Differs(expected, actual)
       THEN /\ verdict' = "Diff"
            /\ \E failFrom \in 0..MaxFailFrom :
                  out' = diffLinesUnified(expected, actual, failFrom)
       ELSE /\ verdict' = "Match"
            /\ UNCHANGED out
    /\ pc' = "cleanup"
    /\ UNCHANGED <<prog, lang, cleanup, buildDir, artifact, compiled, executed,
                   expected, actual, ret, errKind, exitCode, stages, tcall>>

\* os.Remove of the binary or class file (its error is dropped), return nil
U_Cleanup ==
    /\ prog = "unified" /\ pc = "cleanup"
    /\ IF lang \in {"go", "cpp", "rust", "java"}
       THEN \E removed \in BOOLEAN :
               artifact' = IF removed THEN FALSE ELSE artifact
       ELSE UNCHANGED artifact
    /\ ret' = "nil"
    /\ pc' = "returned"
    /\ UNCHANGED <<prog, lang, cleanup, buildDir, compiled, executed, expected,
                   actual, verdict, out, errKind, exitCode, stages, tcall>>

U_Return ==
    /\ prog = "unified" /\ pc = "returned"
    /\ exitCode' = IF ret = "error" THEN 1 ELSE 0
    /\ pc' = "exited"
    /\ UNCHANGED <<prog, lang, cleanup, buildDir, artifact, compiled, executed,
                   expected, actual, verdict, out, ret, errKind, stages, tcall>>

Next ==
    \/ T_ParseArgs
    \/ T_DetectLang
    \/ T_CheckFiles
    \/ T_MkBuildDir
    \/ T_Compile
    \/ T_OpenFiles
    \/ T_Execute
    \/ T_ReadOutputs
    \/ T_Compare
    \/ T_Cleanup
    \/ T_Return
    \/ U_ParseArgs
    \/ U_CheckFiles
    \/ U_Switch
    \/ U_Compile
    \/ U_OpenFiles
    \/ U_Execute
    \/ U_ReadOutputs
    \/ U_Compare
    \/ U_Cleanup
    \/ U_Return

Spec == Init /\ [][Next]_vars

(***************************************************************************)
(* truncate as a function of its arguments: the initial state draws a line *)
(* and a width, the one action applies truncate to them.                   *)
(***************************************************************************)
TruncChr == {"x", "y"}

TruncLines == UNION {[1..n -> TruncChr] : n \in 0..MaxTruncLen}

InitTruncate ==
    /\ prog = "table"
    /\ pc = "start"
    /\ lang = ""
    /\ cleanup = FALSE
    /\ buildDir = FALSE
    /\ artifact = FALSE
    /\ compiled = "no"
    /\ executed = "no"
    /\ expected = <<>>
    /\ actual = <<>>
    /\ verdict = "none"
    /\ out = <<>>
    /\ ret = "none"
    /\ errKind = "none"
    /\ exitCode = -1
    /\ stages = <<>>
    /\ \E s \in TruncLines, m \in 0..MaxTruncWidth :
          tcall = [NoCall EXCEPT !.s = s, !.max = m]

TruncateCall ==
    /\ ~tcall.done
    /\ tcall' = [tcall EXCEPT !.res = truncate(tcall.s, tcall.max),
                              !.cell = Cell(truncate(tcall.s, tcall.max),
                                            tcall.max),
                              !.done = TRUE]
    /\ UNCHANGED <<prog, pc, lang, cleanup, buildDir, artifact, compiled,
                   executed, expected, actual, verdict, out, ret, errKind,
                   exitCode, stages>>

SpecTruncate == InitTruncate /\ [][TruncateCall]_vars

(***************************************************************************)
(* The properties.  They are stated from the texts themselves, with the    *)
(* positions of their newlines and non-blank characters, not through       *)
(* Split and TrimSpace.                                                    *)
(***************************************************************************)
NonSpacePos(s) == {k \in 1..Len(s) : ~IsSpace(s[k])}

SetMin(S) == CHOOSE x \in S : \A y \in S : x <= y

SetMax(S) == CHOOSE x \in S : \A y \in S : x >= y

\* s without its leading and trailing whitespace
Core(s) ==
    IF NonSpacePos(s) = {} THEN <<>>
    ELSE SubSeq(s, SetMin(NonSpacePos(s)), SetMax(NonSpacePos(s)))

NLPos(s) == {k \in 1..Len(s) : s[k] = NL}

LineCount(s) == Cardinality(NLPos(s)) + 1

\* the position of the k-th newline of s
NthNL(s, k) ==
    CHOOSE q \in NLPos(s) : Cardinality({r \in NLPos(s) : r < q}) = k - 1

\* line i of s, counted from 1; the empty line past the end
LineOf(s, i) ==
    IF i > LineCount(s) THEN <<>>
    ELSE SubSeq(s, IF i = 1 THEN 1 ELSE NthNL(s, i - 1) + 1,
                   IF i = LineCount(s) THEN Len(s) ELSE NthNL(s, i) - 1)

RowCount ==
    IF LineCount(expected) >= LineCount(actual)
    THEN LineCount(expected) ELSE LineCount(actual)

DifferingIdx == {i \in 1..RowCount : LineOf(expected, i) # LineOf(actual, i)}

\* s without its trailing newlines
NoTrailingNL(s) ==
    LET keep == {k \in 1..Len(s) : s[k] # NL}
    IN  IF keep = {} THEN <<>> ELSE SubSeq(s, 1, SetMax(keep))

\* b is a with one whitespace character inserted strictly inside its core
InternalSpaceAdded(a, b) ==
    \E q \in 2..(Len(b) - 1) :
       /\ IsSpace(b[q])
       /\ a = SubSeq(b, 1, q - 1) \o SubSeq(b, q + 1, Len(b))
       /\ \E k \in 1..(q - 1) : ~IsSpace(b[k])
       /\ \E k \in (q + 1)..Len(b) : ~IsSpace(b[k])

\* the comparison has just been made (expected, actual, verdict and out do
\* not change afterwards)
Compared == pc = "cleanup" /\ verdict # "none"

\* diffLines has just returned
Rendered == pc = "cleanup" /\ verdict = "Diff"

TableRows == SelectSeq(out, LAMBDA r : r.kind = "row")

UnifiedWrites == SelectSeq(out, LAMBDA r : r.kind \in {"minus", "plus"})

\* the cell the table shows for a line: cut to 35 characters and "..." when
\* longer than 38, padded with spaces to 38 otherwise
ShownCell(l) ==
    IF Len(l) > 38
    THEN [k \in 1..38 |-> IF k <= 35 THEN l[k] ELSE "."]
    ELSE [k \in 1..38 |-> IF k <= Len(l) THEN l[k] ELSE " "]

(* C1: the verdict is Match exactly when the two blobs are identical once   *)
(* the leading and trailing whitespace of each whole blob is removed, and   *)
(* Diff otherwise; comparing the trimmed blobs gives the same verdict;      *)
(* blobs that differ only in trailing newlines give Match; an added         *)
(* internal whitespace character or blank line gives Diff.                  *)
C1_TrimmedEquality ==
    Compared =>
       /\ (verdict = "Match") <=> (Core(expected) = Core(actual))
       /\ (verdict = "Diff") <=> (Core(expected) # Core(actual))
       /\ (verdict = "Diff") <=> Differs(Core(expected), Core(actual))
       /\ NoTrailingNL(expected) = NoTrailingNL(actual) => verdict = "Match"
       /\ InternalSpaceAdded(expected, actual) => verdict = "Diff"
       /\ InternalSpaceAdded(actual, expected) => verdict = "Diff"

C1_Witness ==
    /\ Compared
    /\ verdict = "Match"
    /\ expected # actual
    /\ NoTrailingNL(expected) = NoTrailingNL(actual)
    /\ Len(expected) > 0

(* C2: a rendered diff goes over the indices 0 .. max(lines of expected,    *)
(* lines of actual) - 1 in ascending order; the table renderer writes one   *)
(* row for every index, equal or differing, showing the two lines with a    *)
(* missing line taken as empty, so a row past the end of the shorter side   *)
(* is differing unless the line of the longer side is empty; the unified    *)
(* renderer writes its pairs in ascending order within the same indices.    *)
C2_RowPerIndex ==
    Rendered =>
       /\ prog = "table" =>
             /\ Len(TableRows) = RowCount
             /\ \A i \in 1..Len(TableRows) :
                   /\ TableRows[i].idx = i - 1
                   /\ TableRows[i].exp = ShownCell(LineOf(expected, i))
                   /\ TableRows[i].act = ShownCell(LineOf(actual, i))
                   /\ i > LineCount(expected) =>
                         (TableRows[i].differing <=> LineOf(actual, i) # <<>>)
                   /\ i > LineCount(actual) =>
                         (TableRows[i].differing <=> LineOf(expected, i) # <<>>)
       /\ prog = "unified" =>
             /\ \A n \in 1..Len(UnifiedWrites) :
                   UnifiedWrites[n].idx \in 0..(RowCount - 1)
             /\ \A n \in 1..(Len(UnifiedWrites) - 1) :
                   UnifiedWrites[n].idx <= UnifiedWrites[n + 1].idx

C2_Witness ==
    /\ Rendered
    /\ prog = "table"
    /\ LineCount(expected) = 1
    /\ LineCount(actual) = 3
    /\ Len(TableRows) = 3
    /\ ~TableRows[2].differing
    /\ TableRows[3].differing

\* the indices (from 1) the rendered diff marks as differing
MarkedIdx ==
    IF prog = "table"
    THEN {i \in 1..Len(TableRows) : TableRows[i].differing}
    ELSE {r.idx + 1 : r \in {UnifiedWrites[n] : n \in 1..Len(UnifiedWrites)}}

\* actual is expected with its lines p and q exchanged, two distinct
\* non-empty lines
SwappedAt(p, q) ==
    /\ LineCount(expected) = LineCount(actual)
    /\ p < q /\ q <= LineCount(expected)
    /\ LineOf(expected, p) # <<>> /\ LineOf(expected, q) # <<>>
    /\ LineOf(expected, p) # LineOf(expected, q)
    /\ LineOf(actual, p) = LineOf(expected, q)
    /\ LineOf(actual, q) = LineOf(expected, p)
    /\ \A i \in 1..LineCount(expected) :
          i \notin {p, q} => LineOf(actual, i) = LineOf(expected, i)

\* the two blobs have the same number of lines and differ in line p only
SingleLineDiffAt(p) ==
    /\ LineCount(expected) = LineCount(actual)
    /\ p <= LineCount(expected)
    /\ LineOf(expected, p) # LineOf(actual, p)
    /\ \A i \in 1..LineCount(expected) :
          i # p => LineOf(actual, i) = LineOf(expected, i)

(* C3 as stated: a run that compared a pair of blobs where actual is        *)
(* expected with two distinct non-empty lines exchanged, or that differ in  *)
(* a single line, rendered a diff whose differing rows are exactly those.   *)
C3_AsStated ==
    Compared =>
       /\ \A p \in 1..RowCount, q \in 1..RowCount :
             SwappedAt(p, q) => (Rendered /\ MarkedIdx = {p, q})
       /\ \A p \in 1..RowCount :
             SingleLineDiffAt(p) => (Rendered /\ MarkedIdx = {p})

(* C3, amended: in every rendered diff row i is differing exactly when the  *)
(* expected line at i is not the actual line at i (a missing line being     *)
(* empty); so when a diff is rendered for blobs with two distinct non-empty *)
(* lines exchanged exactly those two rows are differing, and for blobs      *)
(* that differ in a single line exactly that row is.                        *)
C3_Positional ==
    Rendered =>
       /\ MarkedIdx = DifferingIdx
       /\ prog = "unified" =>
             \A i \in DifferingIdx :
                \E n \in 1..(Len(UnifiedWrites) - 1) :
                   /\ UnifiedWrites[n].kind = "minus"
                   /\ UnifiedWrites[n].idx = i - 1
                   /\ UnifiedWrites[n].exp = LineOf(expected, i)
                   /\ UnifiedWrites[n + 1].kind = "plus"
                   /\ UnifiedWrites[n + 1].idx = i - 1
                   /\ UnifiedWrites[n + 1].act = LineOf(actual, i)
       /\ \A p \in 1..RowCount, q \in 1..RowCount :
             SwappedAt(p, q) => MarkedIdx = {p, q}
       /\ \A p \in 1..RowCount : SingleLineDiffAt(p) => MarkedIdx = {p}

C3_Witness ==
    /\ Rendered
    /\ SwappedAt(1, 2)
    /\ MarkedIdx = {1, 2}
    /\ RowCount = 3

(* C9: whenever the verdict is Diff and the diff has been rendered, the     *)
(* rendering marks at least one row as differing: a coloured row in the     *)
(* table, a "- " / "+ " pair in the unified diff.                           *)
C9_DiffShowsDifference ==
    Rendered =>
       /\ prog = "table" =>
             \E i \in 1..Len(TableRows) : TableRows[i].differing
       /\ prog = "unified" =>
             \E n \in 1..(Len(UnifiedWrites) - 1) :
                /\ UnifiedWrites[n].kind = "minus"
                /\ UnifiedWrites[n + 1].kind = "plus"

\* a Diff whose blobs differ in their surrounding whitespace too
C9_Witness ==
    /\ Rendered
    /\ prog = "unified"
    /\ Core(expected) # expected
    /\ Core(actual) = actual
    /\ LineCount(expected) > LineCount(actual)
    /\ Cardinality(MarkedIdx) = 1

(* C10: every call of truncate the program makes passes the width 38, so    *)
(* max - 3 is never negative and no run ends in the out-of-range panic.     *)
C10_TruncateWidth ==
    /\ errKind # "panic"
    /\ exitCode # 2
    /\ \A n \in 1..Len(out) :
          /\ out[n].kind = "row" => (out[n].w = 38 /\ out[n].w - 3 >= 0)
          /\ out[n].exp # Panic /\ out[n].act # Panic

\* a row whose expected line was cut
C10_Witness ==
    /\ Rendered
    /\ prog = "table"
    /\ \E i \in 1..Len(TableRows) :
          /\ Len(LineOf(expected, i)) > 38
          /\ TableRows[i].exp[38] = "."
          /\ TableRows[i].w = 38

(* C4: for a width w >= 3, truncate of a line longer than w is its first    *)
(* w - 3 characters followed by "...", of length exactly w; a line of       *)
(* length at most w is returned unchanged (and the table's padding then     *)
(* brings it to length w); the result is never longer than w.               *)
C4_Truncate ==
    (tcall.done /\ tcall.max >= 3) =>
       /\ Len(tcall.s) > tcall.max =>
             /\ Len(tcall.res) = tcall.max
             /\ \A k \in 1..(tcall.max - 3) : tcall.res[k] = tcall.s[k]
             /\ \A k \in (tcall.max - 2)..tcall.max : tcall.res[k] = "."
       /\ Len(tcall.s) <= tcall.max =>
             /\ tcall.res = tcall.s
             /\ Len(tcall.cell) = tcall.max
             /\ \A k \in 1..tcall.max :
                   tcall.cell[k] = IF k <= Len(tcall.s) THEN tcall.s[k] ELSE " "
       /\ Len(tcall.res) <= tcall.max

C4_Witness ==
    /\ tcall.done
    /\ tcall.max = 4
    /\ Len(tcall.s) = 6
    /\ tcall.res = <<tcall.s[1], ".", ".", ".">>

(* C5: a run in which compilation and execution succeeded and both output   *)
(* files were read returns no error from compileAndRun and does not exit    *)
(* with status 1, whether the verdict is Match or Diff; status 1 comes only *)
(* from a usage, missing-file, unsupported-language, compile, execute or    *)
(* file-I/O error.                                                          *)
C5_DiffIsNotFatal ==
    /\ (pc \in {"returned", "exited"} /\ verdict # "none") =>
          /\ ret = "nil"
          /\ errKind = "none"
          /\ pc = "exited" => exitCode = 0
    /\ exitCode = 1 =>
          errKind \in {"usage", "missing", "unsupported", "compile", "exec",
                       "mkdir", "openin", "createout", "readactual",
                       "readexpected"}

C5_Witness ==
    /\ pc = "exited"
    /\ verdict = "Diff"
    /\ executed = "ok"
    /\ ret = "nil"
    /\ exitCode = 0

(* C6: with --cleanup set, the build directory the run created no longer    *)
(* exists when the tool exits.                                              *)
C6_BuildDirRemoved ==
    (prog = "table" /\ pc = "exited" /\ cleanup) => ~buildDir

FailedWrites == {n \in 1..Len(out) : ~out[n].ok}

Rank(st) == CHOOSE k \in 1..Len(StageOrder) : StageOrder[k] = st

Started(st) == \E k \in 1..Len(stages) : stages[k] = st

\* the stages started are an initial part of the fixed order, compile left
\* out for Python (the unified runner is given its language and starts at
\* the file check)
StagesInOrder ==
    /\ \A k \in 1..Len(stages) : stages[k] \in
          {StageOrder[j] : j \in 1..Len(StageOrder)}
    /\ Len(stages) > 0 =>
          stages[1] = IF prog = "table" THEN "detect" ELSE "stat"
    /\ \A k \in 1..(Len(stages) - 1) :
          \/ Rank(stages[k + 1]) = Rank(stages[k]) + 1
               /\ (stages[k + 1] = "compile" => lang # "python")
          \/ stages[k] = "stat" /\ stages[k + 1] = "execute"
               /\ lang = "python"

C8_StageInvariant ==
    /\ StagesInOrder
    /\ Started("execute") => compiled # "failed"
    /\ (Started("execute") /\ lang # "python") => compiled = "ok"
    /\ Started("compare") => executed = "ok"
    /\ verdict # "none" => (executed = "ok" /\ Started("compare"))
    /\ out # <<>> => verdict = "Diff"
    /\ compiled = "failed" => (executed = "no" /\ errKind = "compile")
    /\ executed = "failed" => (verdict = "none" /\ errKind = "exec")
    /\ errKind # "none" => (pc \in {"returned", "exited"} /\ verdict = "none")
    /\ (errKind # "none" /\ pc = "exited") => exitCode = 1

(* C8: the stages run in the order detect language, check the files,        *)
(* compile (not for Python), execute, compare, each only after every        *)
(* earlier one succeeded; nothing is executed after a failed compilation,   *)
(* nothing compared after a failed execution, and a failure ends the run    *)
(* with exit status 1 and no later stage.                                   *)
C8_StagesInOrder ==
    /\ []C8_StageInvariant
    /\ [][errKind # "none" =>
             /\ stages' = stages
             /\ verdict' = verdict
             /\ out' = out
             /\ errKind' = errKind
             /\ pc' = "exited" /\ exitCode' = 1]_vars

C8_Witness ==
    /\ pc = "exited"
    /\ prog = "table"
    /\ compiled = "failed"
    /\ stages = <<"detect", "stat", "compile">>
    /\ exitCode = 1

====
